---- MODULE Spec2Model ----
(***************************************************************************)
(* Model of the parcel / land-use / zoning merge pipeline                  *)
(* (Frontend/merge_datasets.py, new_merge_with_left_joins).                *)
(*                                                                         *)
(* A GeoDataFrame is a record [cols, rows, crs]: cols is the sequence of   *)
(* column labels (labels may repeat, as in pandas), rows is a sequence of  *)
(* rows, each a sequence of cell values aligned with cols, crs is the      *)
(* frame's coordinate reference system.  A geometry is the set of ground   *)
(* cells it covers; two geometries intersect when they share a cell.       *)
(***************************************************************************)
EXTENDS Integers, Sequences, FiniteSets, TLC

VARIABLES pc, datasets, parcels, land_use, zoning, merged, final,
          final_dataset, outfile, log, bbox

vars == <<pc, datasets, parcels, land_use, zoning, merged, final,
          final_dataset, outfile, log, bbox>>

(***************************************************************************)
(* Bounds of the model.                                                    *)
(***************************************************************************)
MaxParcels == 2
MaxLandUse == 2
MaxZoning == 2
MaxOver == 1
MaxGrid == 3
MaxCalls == 2

(***************************************************************************)
(* Cell values.  Every value is a record of the same shape so that any two *)
(* values can be compared.                                                 *)
(***************************************************************************)
Null == [k |-> "null", s |-> "", n |-> 0, cells |-> {}]
Str(s) == [k |-> "str", s |-> s, n |-> 0, cells |-> {}]
Num(n, unit) == [k |-> "num", s |-> unit, n |-> n, cells |-> {}]
Geom(c) == [k |-> "geom", s |-> "", n |-> 0, cells |-> c]

NoFrame == [cols |-> <<>>, rows |-> <<>>, crs |-> "none"]

\* The query layer (Frontend/backend_example.py) before any /bbox query: bbox
\* holds the query string of the current /bbox query and the responses given
\* to it so far.
NoQuery == [phase |-> "idle", args |-> <<>>, replies |-> <<>>]

(***************************************************************************)
(* Sequence helpers.                                                       *)
(***************************************************************************)
Range(s) == {s[i] : i \in 1..Len(s)}

RECURSIVE SelectIdx(_, _, _)
\* The increasing sequence of the indices i in from..n for which keep[i].
SelectIdx(keep, from, n) ==
    IF from > n THEN <<>>
    ELSE IF keep[from] THEN <<from>> \o SelectIdx(keep, from + 1, n)
    ELSE SelectIdx(keep, from + 1, n)

RECURSIVE Flatten(_)
Flatten(ss) == IF ss = <<>> THEN <<>> ELSE Head(ss) \o Flatten(Tail(ss))

\* Index of the first position of s satisfying member[i], 0 when none.
FirstIdx(member, n) ==
    IF \E i \in 1..n : member[i]
    THEN CHOOSE i \in 1..n : member[i] /\ \A j \in 1..(i - 1) : ~member[j]
    ELSE 0

(***************************************************************************)
(* Python string operations on column labels.                              *)
(***************************************************************************)
LowerChar(c) ==
    CASE c = "A" -> "a" [] c = "B" -> "b" [] c = "C" -> "c" [] c = "D" -> "d"
      [] c = "E" -> "e" [] c = "F" -> "f" [] c = "G" -> "g" [] c = "H" -> "h"
      [] c = "I" -> "i" [] c = "J" -> "j" [] c = "K" -> "k" [] c = "L" -> "l"
      [] c = "M" -> "m" [] c = "N" -> "n" [] c = "O" -> "o" [] c = "P" -> "p"
      [] c = "Q" -> "q" [] c = "R" -> "r" [] c = "S" -> "s" [] c = "T" -> "t"
      [] c = "U" -> "u" [] c = "V" -> "v" [] c = "W" -> "w" [] c = "X" -> "x"
      [] c = "Y" -> "y" [] c = "Z" -> "z" [] OTHER -> c

RECURSIVE Lower(_)
\* str.lower()
Lower(s) ==
    IF Len(s) = 0 THEN ""
    ELSE LowerChar(SubSeq(s, 1, 1)) \o Lower(SubSeq(s, 2, Len(s)))

\* k in s
Contains(s, k) ==
    \E i \in 1..(Len(s) - Len(k) + 1) : SubSeq(s, i, i + Len(k) - 1) = k

(***************************************************************************)
(* pandas operations on frames.                                            *)
(***************************************************************************)
\* label in df.columns
HasCol(df, c) == c \in Range(df.cols)

\* Position of the first column labelled c (0 when there is none).
ColIdx(df, c) == FirstIdx([i \in 1..Len(df.cols) |-> df.cols[i] = c], Len(df.cols))

\* df.rename(columns={old: new}): every column labelled old is relabelled.
Rename(df, old, new) ==
    [df EXCEPT !.cols = [i \in 1..Len(df.cols) |->
                            IF df.cols[i] = old THEN new ELSE df.cols[i]]]

\* The frame made of the columns at the positions idx, in that order.
TakeCols(df, idx) ==
    [df EXCEPT !.cols = [j \in 1..Len(idx) |-> df.cols[idx[j]]],
               !.rows = [r \in 1..Len(df.rows) |->
                            [j \in 1..Len(idx) |-> df.rows[r][idx[j]]]]]

\* df[labels]: for each label in turn, every column carrying it.
Project(df, labels) ==
    TakeCols(df, Flatten([l \in 1..Len(labels) |->
        SelectIdx([i \in 1..Len(df.cols) |-> df.cols[i] = labels[l]],
                  1, Len(df.cols))]))

\* df.drop(columns=[c]): every column labelled c is removed.
DropCol(df, c) ==
    TakeCols(df, SelectIdx([i \in 1..Len(df.cols) |-> df.cols[i] # c],
                           1, Len(df.cols)))

\* [col for col in wanted if col in df.columns]
Available(df, wanted) ==
    LET keep == [i \in 1..Len(wanted) |-> HasCol(df, wanted[i])]
        idx == SelectIdx(keep, 1, Len(wanted))
    IN  [j \in 1..Len(idx) |-> wanted[idx[j]]]

\* df.to_crs(crs): the frame is retagged; a geometry keeps the ground it covers.
ToCrs(df, crs) == [df EXCEPT !.crs = crs]

(***************************************************************************)
(* The three remote sources.  A fetch either fails or yields one of the    *)
(* feature collections below: every shape of collection the pipeline has   *)
(* a branch for, with at most MaxParcels / MaxLandUse / MaxZoning rows.    *)
(***************************************************************************)
Wgs84 == "EPSG:4326"
StatePlane == "EPSG:2227"
WebMercator == "EPSG:3857"

\* dict order of urls
LoadOrder == <<"parcels", "zoning", "land_use">>

IdOf(i) == IF i = 1 THEN "001" ELSE IF i = 2 THEN "002" ELSE IF i = 3 THEN "003" ELSE "004"
ZoneOf(i) == IF i = 1 THEN "RH-2" ELSE IF i = 2 THEN "C-2" ELSE IF i = 3 THEN "RM-1" ELSE "P"
P1 == {1}
P2 == {2}
ParcelGeoms == {P1, P2}
ZoningGeoms == {{1}, {1, 2}}
LandUseKeys == {"001", "002"}
LandUseValues == {Str("Residential"), Null}

ParcelCell(label, i, g) ==
    CASE label = "geometry" -> Geom(g)
      [] label = "shape_area" -> Num(100 + i, "shape_area")
      [] label = "area_sqft" -> Num(200 + i, "area_sqft")
      [] label = "land_use" -> Str("Vacant")
      [] OTHER -> Str(IdOf(i))

ParcelFrame(schema, geoms, crs) ==
    [cols |-> schema,
     rows |-> [i \in 1..Len(geoms) |->
                 [j \in 1..Len(schema) |-> ParcelCell(schema[j], i, geoms[i])]],
     crs |-> crs]

LandUseCell(label, i, key, val) ==
    CASE label = "geometry" -> Geom({i})
      [] label = "mapblklot" -> Str(key)
      [] label = "objectid" -> Num(i, "objectid")
      [] label = "building_use" -> Str("Office")
      [] label = "land_use_desc" -> Str("text")
      [] OTHER -> val

LandUseFrame(schema, keys, vals, crs) ==
    [cols |-> schema,
     rows |-> [i \in 1..Len(keys) |->
                 [j \in 1..Len(schema) |-> LandUseCell(schema[j], i, keys[i], vals[i])]],
     crs |-> crs]

ZoningCell(label, i, g) ==
    CASE label = "geometry" -> Geom(g)
      [] label = "districtname" -> Str("district")
      [] OTHER -> Str(ZoneOf(i))

ZoningFrame(schema, geoms, crs) ==
    [cols |-> schema,
     rows |-> [i \in 1..Len(geoms) |->
                 [j \in 1..Len(schema) |-> ZoningCell(schema[j], i, geoms[i])]],
     crs |-> crs]

\* A feature collection without features decodes to a frame with the geometry
\* column alone.
EmptyFrame == [cols |-> <<"geometry">>, rows |-> <<>>, crs |-> Wgs84]

ParcelSchema == <<"blklot", "geometry">>
OtherParcelSchemas ==
    { <<"id", "geometry">>,
      <<"blklot", "shape_area", "geometry">>,
      <<"blklot", "shape_area", "area_sqft", "geometry">>,
      <<"blklot", "land_use", "geometry">> }

LandUseSchema == <<"mapblklot", "landuse", "geometry">>
OtherLandUseSchemas ==
    { <<"mapblklot", "land_use", "geometry">>,
      <<"objectid", "mapblklot", "geometry">>,
      <<"mapblklot", "geometry">>,
      <<"LandUse", "geometry">>,
      <<"building_use", "mapblklot", "LandUse", "land_use_desc", "geometry">> }

ZoningSchema == <<"districtname", "zoning", "geometry">>
OtherZoningSchemas ==
    { <<"zoning", "geometry">>,
      <<"zone_code", "geometry">>,
      <<"geometry">> }

ParcelPayloads ==
    {EmptyFrame}
    \cup UNION {{ParcelFrame(ParcelSchema, g, Wgs84) : g \in [1..n -> ParcelGeoms]}
                : n \in 1..MaxParcels}
    \cup {ParcelFrame(s, <<P1, P2>>, Wgs84) : s \in OtherParcelSchemas}
    \cup {ParcelFrame(ParcelSchema, <<P1, P2>>, StatePlane)}

LandUsePayloads ==
    {EmptyFrame}
    \cup UNION {{LandUseFrame(LandUseSchema, k, v, Wgs84) :
                    k \in [1..n -> LandUseKeys], v \in [1..n -> LandUseValues]}
                : n \in 1..MaxLandUse}
    \cup {LandUseFrame(s, <<"001">>, <<Str("Residential")>>, Wgs84) :
             s \in OtherLandUseSchemas}
    \cup {LandUseFrame(LandUseSchema, <<"001">>, <<Str("Residential")>>, StatePlane)}

ZoningPayloads ==
    {EmptyFrame}
    \cup UNION {{ZoningFrame(ZoningSchema, g, Wgs84) : g \in [1..n -> ZoningGeoms]}
                : n \in 1..MaxZoning}
    \cup {ZoningFrame(s, <<{1}>>, Wgs84) : s \in OtherZoningSchemas}
    \cup {ZoningFrame(ZoningSchema, <<{1}>>, StatePlane)}

Payloads(name) ==
    CASE name = "parcels" -> ParcelPayloads
      [] name = "zoning" -> ZoningPayloads
      [] name = "land_use" -> LandUsePayloads

\* The output file a previous run left behind.
PrevOutput ==
    [cols |-> <<"parcel_id", "zoning", "land_use", "area_sqft", "geometry">>,
     rows |-> << <<Str("000"), Str("Unknown"), Str("Unknown"),
                   Num(1, WebMercator), Geom({9})>> >>,
     crs |-> Wgs84]

(***************************************************************************)
(* The run.                                                                *)
(***************************************************************************)
Init ==
    /\ pc = "load"
    /\ datasets = [name \in Range(LoadOrder) |-> NoFrame]
    /\ parcels = NoFrame
    /\ land_use = NoFrame
    /\ zoning = NoFrame
    /\ merged = NoFrame
    /\ final = NoFrame
    /\ final_dataset = NoFrame
    /\ outfile = PrevOutput
    /\ log = <<>>
    /\ bbox = NoQuery

\* Number of sources the loop has stored so far.
Loaded == Cardinality({name \in Range(LoadOrder) : datasets[name] # NoFrame})

\* lines 106-107
Normalize(gdf) == IF gdf.crs # Wgs84 THEN ToCrs(gdf, Wgs84) ELSE gdf

\* A variant of Load whose loop ends one source early: the steps after the loop
\* start while the last source has not been fetched.
LoadEndsEarly ==
    /\ pc = "load"
    /\ LET name == LoadOrder[Loaded + 1] IN
       \E gdf \in Payloads(name) :
          /\ datasets' = [datasets EXCEPT ![name] = Normalize(gdf)]
          /\ log' = log \o (IF gdf.crs # Wgs84 THEN <<"to_crs:" \o name>> ELSE <<>>)
                        \o <<"loaded:" \o name>>
          /\ pc' = IF Loaded >= Len(LoadOrder) - 2 THEN "prepare_parcels" ELSE "load"
    /\ UNCHANGED <<bbox, parcels, land_use, zoning, merged, final, final_dataset, outfile>>

\* One iteration of the loading loop in which download and decode succeed.
Load ==
    /\ pc = "load"
    /\ LET name == LoadOrder[Loaded + 1] IN
       \E gdf \in Payloads(name) :
          /\ datasets' = [datasets EXCEPT ![name] = Normalize(gdf)]
          /\ log' = log \o (IF gdf.crs # Wgs84 THEN <<"to_crs:" \o name>> ELSE <<>>)
                        \o <<"loaded:" \o name>>
          /\ pc' = IF Loaded = Len(LoadOrder) - 1 THEN "prepare_parcels" ELSE "load"
    /\ UNCHANGED <<bbox, parcels, land_use, zoning, merged, final, final_dataset, outfile>>

\* A variant of LoadFails whose handler goes on to the next source, as the one
\* of examine_dataset_headers does, the failed source counting as empty.
LoadFailsAndContinues ==
    /\ pc = "load"
    /\ datasets' = [datasets EXCEPT ![LoadOrder[Loaded + 1]] = EmptyFrame]
    /\ log' = log \o <<"error:" \o LoadOrder[Loaded + 1]>>
    /\ pc' = IF Loaded = Len(LoadOrder) - 1 THEN "prepare_parcels" ELSE "load"
    /\ UNCHANGED <<bbox, parcels, land_use, zoning, merged, final, final_dataset, outfile>>

\* One iteration in which download_geojson or load_geodataframe raises: the
\* handler reports the error and the function returns None.
LoadFails ==
    /\ pc = "load"
    /\ log' = log \o <<"error:" \o LoadOrder[Loaded + 1]>>
    /\ pc' = "failed"
    /\ UNCHANGED <<bbox, datasets, parcels, land_use, zoning, merged, final,
                   final_dataset, outfile>>

(***************************************************************************)
(* Preparing the parcels (lines 113-134).                                  *)
(***************************************************************************)
AreaThreshold == 10000

\* df[label] = values: an existing column is overwritten, a new one is appended.
SetCol(df, label, values) ==
    IF HasCol(df, label)
    THEN [df EXCEPT !.rows = [r \in 1..Len(df.rows) |->
                                [j \in 1..Len(df.cols) |->
                                    IF df.cols[j] = label THEN values[r]
                                    ELSE df.rows[r][j]]]]
    ELSE [df EXCEPT !.cols = Append(df.cols, label),
                    !.rows = [r \in 1..Len(df.rows) |-> Append(df.rows[r], values[r])]]

\* The geometry of row r of a frame.
GeomOf(df, r) == df.rows[r][ColIdx(df, "geometry")]

\* geometry.area: the planar area in the units of the frame's reference system.
PlanarArea(df, r) == Num(Cardinality(GeomOf(df, r).cells), df.crs)

\* geometry.area * 111319.9 * 111319.9 * 0.3048 * 0.3048 (line 128)
ApproximateArea(df, r) ==
    [PlanarArea(df, r) EXCEPT !.s = "approximate:" \o df.crs]

\* to_crs('EPSG:3857').geometry.area (lines 131-132)
ExactArea(df, r) == PlanarArea(ToCrs(df, WebMercator), r)

\* A variant of IsLarge that counts a collection of exactly AreaThreshold rows
\* as large.
IsLargeFromThreshold(df) == Len(df.rows) >= AreaThreshold

\* line 125
IsLarge(df) == Len(df.rows) > AreaThreshold

\* lines 119-133: which way area_sqft is obtained
AreaMethod(df) ==
    IF HasCol(df, "shape_area") THEN "renamed"
    ELSE IF IsLarge(df) THEN "approximate"
    ELSE "exact"

DeriveArea(df) ==
    CASE AreaMethod(df) = "renamed" -> Rename(df, "shape_area", "area_sqft")
      [] AreaMethod(df) = "approximate" ->
            SetCol(df, "area_sqft", [r \in 1..Len(df.rows) |-> ApproximateArea(df, r)])
      [] OTHER ->
            SetCol(df, "area_sqft", [r \in 1..Len(df.rows) |-> ExactArea(df, r)])

\* lines 115-117
ResolveParcelId(df) ==
    IF HasCol(df, "blklot") THEN Rename(df, "blklot", "parcel_id") ELSE df

PrepareParcels ==
    /\ pc = "prepare_parcels"
    /\ parcels' = DeriveArea(ResolveParcelId(datasets["parcels"]))
    /\ log' = log \o (IF HasCol(datasets["parcels"], "blklot")
                      THEN <<"renamed:blklot">> ELSE <<>>)
                  \o <<"area:" \o AreaMethod(ResolveParcelId(datasets["parcels"]))>>
    /\ pc' = "prepare_land_use"
    /\ UNCHANGED <<bbox, datasets, land_use, zoning, merged, final, final_dataset, outfile>>

(***************************************************************************)
(* Preparing land_use (lines 135-154) and zoning (lines 155-174).          *)
(***************************************************************************)
\* A variant of IsLandUseName with the test of line 69: either word is enough.
IsLandUseNameEither(col) == Contains(Lower(col), "land") \/ Contains(Lower(col), "use")

\* line 139
IsLandUseName(col) == Contains(Lower(col), "land") /\ Contains(Lower(col), "use")

\* line 159
IsZoningName(col) == Contains(Lower(col), "zoning")

\* lines 137-141: position of the first column with a land-use name, 0 if none
LandUseMatch(df) ==
    FirstIdx([i \in 1..Len(df.cols) |-> IsLandUseName(df.cols[i])], Len(df.cols))

\* lines 157-161
ZoningMatch(df) ==
    FirstIdx([i \in 1..Len(df.cols) |-> IsZoningName(df.cols[i])], Len(df.cols))

\* non_geom_cols[0] (lines 146-148, 166-168): position of the first column that
\* is not the geometry, 0 if none
FirstNonGeom(df) ==
    FirstIdx([i \in 1..Len(df.cols) |-> df.cols[i] # "geometry"], Len(df.cols))

\* lines 142-150 and 162-170: the matched column, else the fallback column, is
\* renamed to the role name; with neither the frame is left as it is.
RenameRole(df, match, role) ==
    IF match # 0 THEN Rename(df, df.cols[match], role)
    ELSE IF FirstNonGeom(df) # 0 THEN Rename(df, df.cols[FirstNonGeom(df)], role)
    ELSE df

\* What the run prints about the resolution.
RoleReport(df, match, role) ==
    IF match # 0 THEN <<role \o ":matched:" \o df.cols[match]>>
    ELSE IF FirstNonGeom(df) # 0
         THEN <<role \o ":fallback:" \o df.cols[FirstNonGeom(df)]>>
    ELSE <<>>

ResolveLandUse ==
    /\ pc = "prepare_land_use"
    /\ land_use' = RenameRole(datasets["land_use"], LandUseMatch(datasets["land_use"]),
                              "land_use")
    /\ log' = log \o RoleReport(datasets["land_use"],
                                LandUseMatch(datasets["land_use"]), "land_use")
    /\ pc' = "select_land_use"
    /\ UNCHANGED <<bbox, datasets, parcels, zoning, merged, final, final_dataset, outfile>>

\* lines 151-153
SelectLandUse ==
    /\ pc = "select_land_use"
    /\ land_use' = Project(land_use,
                           Available(land_use, <<"land_use", "mapblklot", "geometry">>))
    /\ pc' = "prepare_zoning"
    /\ UNCHANGED <<bbox, datasets, parcels, zoning, merged, final, final_dataset, outfile, log>>

PrepareZoning ==
    /\ pc = "prepare_zoning"
    /\ LET renamed == RenameRole(datasets["zoning"], ZoningMatch(datasets["zoning"]),
                                 "zoning")
       IN  zoning' = Project(renamed, Available(renamed, <<"zoning", "geometry">>))
    /\ log' = log \o RoleReport(datasets["zoning"], ZoningMatch(datasets["zoning"]),
                                "zoning")
    /\ pc' = "join"
    /\ UNCHANGED <<bbox, datasets, parcels, land_use, merged, final, final_dataset, outfile>>

(***************************************************************************)
(* The attribute join (lines 175-192).                                     *)
(***************************************************************************)
\* Number of columns of df labelled c.
ColCount(df, c) == Cardinality({i \in 1..Len(df.cols) : df.cols[i] = c})

\* The labels of `mine` after pandas has resolved the overlap with `other`:
\* a label carried by both sides gets the suffix.
Suffixed(mine, other, suffix) ==
    [i \in 1..Len(mine) |-> IF mine[i] \in Range(other) THEN mine[i] \o suffix
                            ELSE mine[i]]

\* The rows of `right` (their positions, in order) whose key equals the key of
\* row r of `left`; pandas treats two missing keys as equal.
KeyMatches(left, r, right, left_on, right_on) ==
    SelectIdx([q \in 1..Len(right.rows) |->
                  right.rows[q][ColIdx(right, right_on)]
                     = left.rows[r][ColIdx(left, left_on)]],
              1, Len(right.rows))

\* A row of n missing values.
Nulls(n) == [j \in 1..n |-> Null]

\* A variant of LeftRows for how='inner': a left row without a match gives no row.
LeftRowsInner(row, right, matches) ==
    [m \in 1..Len(matches) |-> row \o right.rows[matches[m]]]

\* The output rows a left row gives with its matches: one per match, or one
\* padded with missing values when there is no match.
LeftRows(row, right, matches) ==
    IF matches = <<>> THEN <<row \o Nulls(Len(right.cols))>>
    ELSE [m \in 1..Len(matches) |-> row \o right.rows[matches[m]]]

\* left.merge(right, left_on=.., right_on=.., how='left', suffixes=(lsuffix, rsuffix))
Merge(left, right, left_on, right_on, lsuffix, rsuffix) ==
    [cols |-> Suffixed(left.cols, right.cols, lsuffix)
                 \o Suffixed(right.cols, left.cols, rsuffix),
     rows |-> Flatten([r \in 1..Len(left.rows) |->
                 LeftRows(left.rows[r], right,
                          KeyMatches(left, r, right, left_on, right_on))]),
     crs |-> left.crs]

\* line 177
CanJoin == HasCol(parcels, "parcel_id") /\ HasCol(land_use, "mapblklot")

\* merge refuses a key label that names more than one column
MergeRaises == ColCount(parcels, "parcel_id") > 1 \/ ColCount(land_use, "mapblklot") > 1

\* lines 178-186
JoinLandUse(left, right) ==
    LET m == Merge(left, right, "parcel_id", "mapblklot", "", "_land_use")
    IN  IF HasCol(m, "mapblklot") THEN DropCol(m, "mapblklot") ELSE m

AttributeJoin ==
    /\ pc = "join"
    /\ IF CanJoin /\ MergeRaises
       THEN /\ pc' = "crashed"
            /\ UNCHANGED <<merged, log>>
       ELSE /\ merged' = IF CanJoin THEN JoinLandUse(parcels, land_use) ELSE parcels
            /\ log' = log \o (IF CanJoin THEN <<"join:done">> ELSE <<"join:skipped">>)
            /\ pc' = "sjoin"
    /\ UNCHANGED <<bbox, datasets, parcels, land_use, zoning, final, final_dataset, outfile>>

(***************************************************************************)
(* The spatial join (lines 193-222).                                       *)
(***************************************************************************)
\* predicate='intersects'; a missing geometry intersects nothing
Intersects(a, b) == a.k = "geom" /\ b.k = "geom" /\ a.cells \cap b.cells # {}

\* A variant of GeomMatches that keeps the first intersecting row only.
GeomMatchesFirst(left, r, right) ==
    LET hit == [q \in 1..Len(right.rows) |-> Intersects(GeomOf(left, r), GeomOf(right, q))]
    IN  IF FirstIdx(hit, Len(right.rows)) = 0 THEN <<>>
        ELSE <<FirstIdx(hit, Len(right.rows))>>

\* The rows of `right` (their positions, in order) whose geometry intersects
\* the geometry of row r of `left`.
GeomMatches(left, r, right) ==
    SelectIdx([q \in 1..Len(right.rows) |-> Intersects(GeomOf(left, r), GeomOf(right, q))],
              1, Len(right.rows))

\* gpd.sjoin(left, right, how='left', predicate='intersects'): the left columns,
\* index_right, and the right columns but its geometry.
SJoin(left, right) ==
    LET attrs == DropCol(right, "geometry")
        tagged == [cols |-> <<"index_right">> \o attrs.cols,
                   rows |-> [q \in 1..Len(attrs.rows) |->
                               <<Num(q - 1, "index")>> \o attrs.rows[q]],
                   crs |-> right.crs]
    IN  [cols |-> Suffixed(left.cols, attrs.cols, "_left")
                     \o <<"index_right">> \o Suffixed(attrs.cols, left.cols, "_right"),
         rows |-> Flatten([r \in 1..Len(left.rows) |->
                     LeftRows(left.rows[r], tagged, GeomMatches(left, r, right))]),
         crs |-> left.crs]

\* lines 197-208
JoinZoning(left, right) ==
    LET j == SJoin(left, right)
    IN  IF HasCol(j, "index_right") THEN DropCol(j, "index_right") ELSE j

\* line 215 selects parcel_id and zoning from the joined frame: a KeyError when
\* the frame has a zoning column but no parcel_id
StatsRaise(df) == HasCol(df, "zoning") /\ ~HasCol(df, "parcel_id")

SpatialJoin ==
    /\ pc = "sjoin"
    /\ IF HasCol(zoning, "zoning")
       THEN /\ final' = JoinZoning(merged, zoning)
            /\ IF StatsRaise(JoinZoning(merged, zoning))
               THEN pc' = "crashed" /\ log' = log
               ELSE pc' = "finalize" /\ log' = log \o <<"sjoin:done">>
       ELSE /\ final' = merged
            /\ log' = log \o <<"sjoin:skipped">>
            /\ pc' = "finalize"
    /\ UNCHANGED <<bbox, datasets, parcels, land_use, zoning, merged, final_dataset, outfile>>

(***************************************************************************)
(* Cleaning up and saving (lines 223-241).                                 *)
(***************************************************************************)
RequiredColumns == <<"parcel_id", "zoning", "land_use", "area_sqft", "geometry">>

\* lines 224-227: of the columns sharing a label only the first is kept
DropDuplicateColumns(df) ==
    TakeCols(df, SelectIdx([i \in 1..Len(df.cols) |->
                               \A j \in 1..(i - 1) : df.cols[j] # df.cols[i]],
                           1, Len(df.cols)))

\* A variant of FillNa whose result is not assigned back: the frame is as it was.
FillNaDiscarded(df, label, value) == df

\* series.fillna(value)
FillNa(df, label, value) ==
    IF HasCol(df, label)
    THEN [df EXCEPT !.rows = [r \in 1..Len(df.rows) |->
                                [j \in 1..Len(df.cols) |->
                                    IF df.cols[j] = label /\ df.rows[r][j] = Null
                                    THEN value ELSE df.rows[r][j]]]]
    ELSE df

\* lines 224-237
Finalize(df) ==
    LET unique == DropDuplicateColumns(df)
        selected == Project(unique, Available(unique, RequiredColumns))
    IN  FillNa(FillNa(selected, "zoning", Str("Unknown")), "land_use", Str("Unknown"))

\* lines 230-232
MissingReport(df) ==
    IF Len(Available(df, RequiredColumns)) < Len(RequiredColumns)
    THEN <<"missing columns">> ELSE <<>>

CleanUp ==
    /\ pc = "finalize"
    /\ final_dataset' = Finalize(final)
    /\ log' = log \o MissingReport(final)
    /\ pc' = "save"
    /\ UNCHANGED <<bbox, datasets, parcels, land_use, zoning, merged, final, outfile>>

\* lines 240-241
Save ==
    /\ pc = "save"
    /\ outfile' = final_dataset
    /\ pc' = "done"
    /\ UNCHANGED <<bbox, datasets, parcels, land_use, zoning, merged, final, final_dataset, log>>

Next ==
    \/ Load
    \/ LoadFails
    \/ PrepareParcels
    \/ ResolveLandUse
    \/ SelectLandUse
    \/ PrepareZoning
    \/ AttributeJoin
    \/ SpatialJoin
    \/ CleanUp
    \/ Save

Spec == Init /\ [][Next]_vars

(***************************************************************************)
(* Area derivation on collections around the size threshold.  The run      *)
(* starts where the loading loop has stored the three sources; the parcel  *)
(* source has AreaThreshold - 1 .. AreaThreshold + MaxOver rows, or a few. *)
(***************************************************************************)
ParcelSizes == (1..MaxParcels) \cup ((AreaThreshold - 1)..(AreaThreshold + MaxOver))

AreaSchemas ==
    { <<"blklot", "geometry">>,
      <<"id", "geometry">>,
      <<"blklot", "shape_area", "geometry">> }

\* n parcels whose geometries alternate between g1 and g2
SizedParcels(schema, n, g1, g2) ==
    ParcelFrame(schema, [i \in 1..n |-> IF i % 2 = 1 THEN g1 ELSE g2], Wgs84)

InitArea ==
    /\ pc = "prepare_parcels"
    /\ \E schema \in AreaSchemas, n \in ParcelSizes, g1 \in ParcelGeoms, g2 \in ZoningGeoms :
          datasets = [name \in Range(LoadOrder) |->
                        IF name = "parcels" THEN SizedParcels(schema, n, g1, g2)
                        ELSE EmptyFrame]
    /\ parcels = NoFrame
    /\ land_use = NoFrame
    /\ zoning = NoFrame
    /\ merged = NoFrame
    /\ final = NoFrame
    /\ final_dataset = NoFrame
    /\ outfile = PrevOutput
    /\ log = <<"loaded:parcels", "loaded:zoning", "loaded:land_use">>
    /\ bbox = NoQuery

NextArea == PrepareParcels

SpecArea == InitArea /\ [][NextArea]_vars

(***************************************************************************)
(* Properties of the attribute join.                                       *)
(***************************************************************************)
\* The attribute join has been performed (not skipped) and its result stored.
Joined == pc = "sjoin" /\ CanJoin

\* The cells of merged row r that come from the parcels frame.
ParcelPart(r) == SubSeq(merged.rows[r], 1, Len(parcels.cols))

\* The land_use rows whose mapblklot equals the parcel_id of parcel row r.
KeyedRows(r) ==
    {q \in 1..Len(land_use.rows) :
        land_use.rows[q][ColIdx(land_use, "mapblklot")]
           = parcels.rows[r][ColIdx(parcels, "parcel_id")]}

\* No two land_use rows share a mapblklot value.
UniqueRightKey ==
    \A q1, q2 \in 1..Len(land_use.rows) :
        land_use.rows[q1][ColIdx(land_use, "mapblklot")]
           = land_use.rows[q2][ColIdx(land_use, "mapblklot")] => q1 = q2

\* Row r of merged is parcel row r, and there are as many rows as parcels.
OneRowPerParcel ==
    /\ Len(merged.rows) = Len(parcels.rows)
    /\ \A r \in 1..Len(parcels.rows) : ParcelPart(r) = parcels.rows[r]

\* C1: after the attribute join every parcel row appears exactly once in the
\* result, whatever the land_use collection holds, also when several land_use
\* rows carry the same mapblklot: the result has as many rows as there are parcels.
C1_EveryParcelOnce == Joined => OneRowPerParcel

\* C2 as stated: with a unique right key the join output has one row per parcel,
\* and its land_use is null for exactly the parcels whose parcel_id matches no
\* mapblklot.
C2_NullExactlyWhenUnmatched ==
    (Joined /\ UniqueRightKey) =>
        /\ OneRowPerParcel
        /\ \A r \in 1..Len(parcels.rows) :
              (merged.rows[r][ColIdx(merged, "land_use")] = Null) <=> (KeyedRows(r) = {})

\* C2 amended: with a unique right key the join output has one row per parcel;
\* and, the parcels having no land_use column of their own, a parcel whose
\* parcel_id matches no mapblklot has a null land_use and a matched parcel
\* carries the land_use value of its one matching row, whatever that value is
\* (a null value included).
C2_RowCountPreserved ==
    (Joined /\ UniqueRightKey) =>
        /\ OneRowPerParcel
        /\ ~HasCol(parcels, "land_use") =>
              \A r \in 1..Len(parcels.rows) :
                 /\ KeyedRows(r) = {} => merged.rows[r][ColIdx(merged, "land_use")] = Null
                 /\ \A q \in KeyedRows(r) :
                       merged.rows[r][ColIdx(merged, "land_use")]
                          = land_use.rows[q][ColIdx(land_use, "land_use")]

\* A join over a unique right key in which one parcel is matched by a row whose
\* land_use is null and another parcel is matched by no row.
C2_Witness ==
    /\ Joined
    /\ UniqueRightKey
    /\ ~HasCol(parcels, "land_use")
    /\ \E r \in 1..Len(parcels.rows) :
          \E q \in KeyedRows(r) : land_use.rows[q][ColIdx(land_use, "land_use")] = Null
    /\ \E r \in 1..Len(parcels.rows) : KeyedRows(r) = {}

(***************************************************************************)
(* Properties of the spatial join.                                         *)
(***************************************************************************)
\* The spatial join has been performed (not skipped) and the run goes on.
SpatiallyJoined == pc = "finalize" /\ HasCol(zoning, "zoning")

\* The zoning polygons that share ground with merged row r.
Overlapping(r) ==
    {q \in 1..Len(zoning.rows) :
        merged.rows[r][ColIdx(merged, "geometry")].cells
           \cap zoning.rows[q][ColIdx(zoning, "geometry")].cells # {}}

\* The rows of final that stem from a merged row with the cells `row`.
Offspring(row) ==
    {f \in 1..Len(final.rows) : SubSeq(final.rows[f], 1, Len(merged.cols)) = row}

\* The rows of merged with the cells `row`.
Copies(row) == {r \in 1..Len(merged.rows) : merged.rows[r] = row}

\* The number of rows of final the merged row r is to give.
Multiplicity(r) ==
    IF Overlapping(r) = {} THEN 1 ELSE Cardinality(Overlapping(r))

\* C3: after the spatial join a row of merged that intersects exactly k >= 1
\* zoning polygons has given exactly k rows, one per intersecting polygon and
\* carrying that polygon's zoning value, and a row that intersects none has
\* given exactly one row, whose zoning is null.
C3_SpatialMultiplicity ==
    SpatiallyJoined =>
        \A r \in 1..Len(merged.rows) :
            /\ Cardinality(Offspring(merged.rows[r]))
                  = Cardinality(Copies(merged.rows[r])) * Multiplicity(r)
            /\ \A q \in Overlapping(r) :
                  \E f \in Offspring(merged.rows[r]) :
                     final.rows[f][ColIdx(final, "zoning")]
                        = zoning.rows[q][ColIdx(zoning, "zoning")]
            /\ Overlapping(r) = {} =>
                  \A f \in Offspring(merged.rows[r]) :
                     final.rows[f][ColIdx(final, "zoning")] = Null
            /\ \A f \in Offspring(merged.rows[r]) :
                  \/ final.rows[f][ColIdx(final, "zoning")] = Null /\ Overlapping(r) = {}
                  \/ \E q \in Overlapping(r) :
                        final.rows[f][ColIdx(final, "zoning")]
                           = zoning.rows[q][ColIdx(zoning, "zoning")]

\* A spatial join in which one parcel intersects two zoning polygons of
\* different zoning and another parcel intersects none.
C3_Witness ==
    /\ SpatiallyJoined
    /\ \E r \in 1..Len(merged.rows) : Cardinality(Overlapping(r)) = 2
    /\ \E r \in 1..Len(merged.rows) : Overlapping(r) = {}
    /\ Len(final.rows) = 3

(***************************************************************************)
(* Properties of the whole run.                                            *)
(***************************************************************************)
\* The sources of the end-to-end example.
ExampleSources ==
    [name \in Range(LoadOrder) |->
        CASE name = "parcels" -> ParcelFrame(<<"id", "geometry">>, <<P1, P2>>, Wgs84)
          [] name = "land_use" ->
                LandUseFrame(<<"mapblklot", "land_use", "geometry">>, <<"001">>,
                             <<Str("Residential")>>, Wgs84)
          [] name = "zoning" -> ZoningFrame(<<"zoning", "geometry">>, <<{1}>>, Wgs84)]

\* The value of field `label` in row r of the saved file.
Saved(r, label) == outfile.rows[r][ColIdx(outfile, label)]

\* C4: the run on the example sources (parcels "001" at P1 and "002" at P2 with
\* the identifier in a field named id, land_use Residential for "001", zoning
\* RH-2 over P1 only) completes and saves exactly the two rows ("001", RH-2,
\* Residential, area > 0) and ("002", Unknown, Unknown, area > 0).
C4_EndToEndExample ==
    datasets = ExampleSources =>
        /\ pc # "crashed"
        /\ pc = "done" =>
              /\ \A c \in Range(RequiredColumns) : HasCol(outfile, c)
              /\ Len(outfile.rows) = 2
              /\ Saved(1, "parcel_id") = Str("001")
              /\ Saved(1, "zoning") = Str("RH-2")
              /\ Saved(1, "land_use") = Str("Residential")
              /\ Saved(1, "area_sqft").n > 0
              /\ Saved(2, "parcel_id") = Str("002")
              /\ Saved(2, "zoning") = Str("Unknown")
              /\ Saved(2, "land_use") = Str("Unknown")
              /\ Saved(2, "area_sqft").n > 0

\* C5: when the prepared land_use collection has no mapblklot column the run
\* still saves its output, the attribute join having been skipped (merged is
\* the parcels as they were), and every saved row has a land_use field whose
\* value is "Unknown".
C5_MissingKeyFailsOpen ==
    (pc = "done" /\ ~HasCol(land_use, "mapblklot")) =>
        /\ merged = parcels
        /\ HasCol(outfile, "land_use")
        /\ \A r \in 1..Len(outfile.rows) : Saved(r, "land_use") = Str("Unknown")

\* A load of one of the three sources has failed.
LoadError == \E i \in 1..Len(log) : \E name \in Range(LoadOrder) : log[i] = "error:" \o name

\* C6: a failed fetch or decode of any of the three sources ends the run with
\* nothing prepared, nothing joined and nothing written, so that the file of the
\* previous run is as it was; and no step after the loading loop, the save
\* included, is ever reached with fewer than three sources loaded.
C6_FetchFailureIsFatal ==
    /\ LoadError =>
          /\ pc = "failed"
          /\ outfile = PrevOutput
          /\ parcels = NoFrame /\ land_use = NoFrame /\ zoning = NoFrame
          /\ merged = NoFrame /\ final = NoFrame /\ final_dataset = NoFrame
    /\ pc = "failed" => LoadError
    /\ pc \notin {"load", "failed"} =>
          \A name \in Range(LoadOrder) : datasets[name] # NoFrame

\* The third source fails to load after the first two were stored.
C6_Witness ==
    /\ pc = "failed"
    /\ datasets["parcels"] # NoFrame
    /\ datasets["zoning"] # NoFrame
    /\ datasets["land_use"] = NoFrame
    /\ outfile = PrevOutput

\* C7: when the prepared parcels have no parcel_id column the run stops before
\* it cleans up and saves, whatever the zoning and land_use collections are, so
\* every saved output has a parcel_id field.
C7_UnresolvedIdIsFatal ==
    /\ (pc \in {"save", "done"}) => HasCol(parcels, "parcel_id")
    /\ pc = "done" => HasCol(outfile, "parcel_id")

(***************************************************************************)
(* Properties of area derivation (checked under SpecArea).                 *)
(***************************************************************************)
\* The parcels as loaded, and the state in which they have been prepared.
SourceParcels == datasets["parcels"]
Prepared == pc = "prepare_land_use"

\* The area_sqft of prepared parcel r is the planar area of its geometry in the
\* projected system.
HasExactArea(r) ==
    parcels.rows[r][ColIdx(parcels, "area_sqft")]
       = Num(Cardinality(SourceParcels.rows[r][ColIdx(SourceParcels, "geometry")].cells),
             "EPSG:3857")

\* The area_sqft of prepared parcel r is the scaled planar area of its geometry
\* in degrees.
HasApproximateArea(r) ==
    parcels.rows[r][ColIdx(parcels, "area_sqft")]
       = Num(Cardinality(SourceParcels.rows[r][ColIdx(SourceParcels, "geometry")].cells),
             "approximate:EPSG:4326")

\* The shape_area column has become area_sqft with its values as they were, and
\* no column was added.
AreaCopied ==
    /\ Len(parcels.cols) = Len(SourceParcels.cols)
    /\ \A j \in 1..Len(parcels.cols) :
          SourceParcels.cols[j] = "shape_area" =>
             /\ parcels.cols[j] = "area_sqft"
             /\ \A r \in 1..Len(parcels.rows) : parcels.rows[r][j] = SourceParcels.rows[r][j]

\* C8 as stated: a shape_area column is renamed to area_sqft without any
\* computation; otherwise a collection of N < 10000 rows gets the exact
\* projected area and a collection of N >= 10000 rows the approximate one.
C8_ApproximateFromThreshold ==
    Prepared =>
        IF HasCol(SourceParcels, "shape_area") THEN AreaCopied
        ELSE /\ Len(SourceParcels.rows) < 10000 =>
                   \A r \in 1..Len(parcels.rows) : HasExactArea(r)
             /\ Len(SourceParcels.rows) >= 10000 =>
                   \A r \in 1..Len(parcels.rows) : HasApproximateArea(r)

\* C8 amended: a shape_area column is renamed to area_sqft without any
\* computation; otherwise a collection of N <= 10000 rows gets the exact
\* projected area and only a collection of N > 10000 rows the approximate one.
C8_ApproximateAboveThreshold ==
    Prepared =>
        /\ Len(parcels.rows) = Len(SourceParcels.rows)
        /\ IF HasCol(SourceParcels, "shape_area") THEN AreaCopied
           ELSE /\ Len(SourceParcels.rows) <= 10000 =>
                      \A r \in 1..Len(parcels.rows) : HasExactArea(r)
                /\ Len(SourceParcels.rows) > 10000 =>
                      \A r \in 1..Len(parcels.rows) : HasApproximateArea(r)

\* A collection of exactly 10000 parcels without shape_area has been prepared.
C8_Witness ==
    /\ Prepared
    /\ ~HasCol(SourceParcels, "shape_area")
    /\ Len(SourceParcels.rows) = 10000
    /\ \A r \in 1..Len(parcels.rows) : HasExactArea(r)

(***************************************************************************)
(* Properties of land-use schema resolution.                               *)
(***************************************************************************)
\* The land_use source as loaded, and the state in which its column has been
\* resolved and renamed (before the frame is cut down to its canonical columns).
SourceLandUse == datasets["land_use"]
Resolved == pc = "select_land_use"

\* The labels of the sources that contain both "land" and "use" when case is
\* ignored.
LandUseLabels == {"landuse", "LandUse", "land_use", "land_use_desc"}

\* s.startswith(p)
StartsWith(s, p) == Len(s) >= Len(p) /\ SubSeq(s, 1, Len(p)) = p

\* The first position of the source whose label is in `labels`, 0 if none.
FirstLabelled(labels) ==
    IF \E i \in 1..Len(SourceLandUse.cols) : SourceLandUse.cols[i] \in labels
    THEN CHOOSE i \in 1..Len(SourceLandUse.cols) :
            /\ SourceLandUse.cols[i] \in labels
            /\ \A j \in 1..(i - 1) : SourceLandUse.cols[j] \notin labels
    ELSE 0

\* The first land-use field of the source, and its first field but the geometry.
FirstLandUseField == FirstLabelled(LandUseLabels)
FirstPlainField == FirstLabelled(Range(SourceLandUse.cols) \ {"geometry"})

\* The column at position i, and no other, has been renamed to land_use.
OnlyRenamed(i) ==
    /\ Len(land_use.cols) = Len(SourceLandUse.cols)
    /\ \A j \in 1..Len(land_use.cols) :
          land_use.cols[j] = IF j = i THEN "land_use" ELSE SourceLandUse.cols[j]
    /\ land_use.rows = SourceLandUse.rows

Cleaned == pc \in {"save", "done"}

\* No zoning or land_use value of the frame is null.
NoNullCategory(df) ==
    \A r \in 1..Len(df.rows) : \A j \in 1..Len(df.cols) :
        df.cols[j] \in {"zoning", "land_use"} => df.rows[r][j] # Null

\* C10: cleaning up the output of the clean-up changes nothing: the same
\* fields, the same rows; and no zoning or land_use value is null once the
\* clean-up has been applied.
C10_CleanUpIdempotent ==
    Cleaned =>
        /\ Finalize(final_dataset) = final_dataset
        /\ NoNullCategory(final_dataset)

\* A clean-up that had a duplicate label to drop, columns to leave out and a
\* null zoning and a null land_use to fill.
C10_Witness ==
    /\ Cleaned
    /\ \E i, j \in 1..Len(final.cols) : i # j /\ final.cols[i] = final.cols[j]
    /\ ~NoNullCategory(final)
    /\ HasCol(final, "zoning") /\ HasCol(final, "land_use")
    /\ \E r \in 1..Len(final.rows) :
          /\ final.rows[r][ColIdx(final, "zoning")] = Null
          /\ final.rows[r][ColIdx(final, "land_use")] = Null
    /\ Len(final_dataset.cols) < Len(final.cols)

(***************************************************************************)
(* The /bbox endpoint of the query layer (Frontend/backend_example.py,     *)
(* get_parcels_by_bbox).  Coordinates are in units of 0.0001 degree.  A    *)
(* client sends a query; the handler answers it, and answers it again      *)
(* when the client repeats the query (up to MaxCalls answers).             *)
(***************************************************************************)
\* MOCK_PARCELS: the identifier and the outer ring of each feature
MOCK_PARCELS ==
    << [parcel_id |-> "SF001",
        ring |-> << <<-1224194, 377749>>, <<-1224184, 377749>>, <<-1224184, 377739>>,
                    <<-1224194, 377739>>, <<-1224194, 377749>> >>],
       [parcel_id |-> "SF002",
        ring |-> << <<-1224204, 377759>>, <<-1224194, 377759>>, <<-1224194, 377749>>,
                    <<-1224204, 377749>>, <<-1224204, 377759>> >>],
       [parcel_id |-> "SF003",
        ring |-> << <<-1224214, 377769>>, <<-1224204, 377769>>, <<-1224204, 377759>>,
                    <<-1224214, 377759>>, <<-1224214, 377769>> >>] >>

DefaultNorth == 378000
DefaultSouth == 377000
DefaultEast == -1224000
DefaultWest == -1225000

\* A query parameter: left out, not a number, or a number.
Absent == [k |-> "absent", v |-> 0]
Malformed == [k |-> "bad", v |-> 0]
Given(v) == [k |-> "num", v |-> v]

\* The latitudes and longitudes a client asks about: the first vertices of
\* SF001 and SF002 lie on the grid, the other grid values beside them.
LatGrid == {377744 + 5 * i : i \in 0..MaxGrid}
LonGrid == {-1224209 + 5 * i : i \in 0..MaxGrid}
LatArgs == {Absent, Malformed} \cup {Given(v) : v \in LatGrid}
LonArgs == {Absent, Malformed} \cup {Given(v) : v \in LonGrid}

\* float(request.args.get(name, default))
ArgValue(arg, default) == IF arg.k = "absent" THEN default ELSE arg.v

\* float() raises on a parameter that is not a number (lines 62-65, 86-87)
BadRequest(args) == \E name \in DOMAIN args : args[name].k = "bad"

\* coords = parcel['geometry']['coordinates'][0][0] (lines 71-72)
FirstVertex(parcel) == parcel.ring[1]

\* A variant of InBox with the edges of the box left out.
InBoxStrict(lon, lat, north, south, east, west) ==
    west < lon /\ lon < east /\ south < lat /\ lat < north

\* line 74
InBox(lon, lat, north, south, east, west) ==
    west <= lon /\ lon <= east /\ south <= lat /\ lat <= north

\* lines 69-75: the parcels whose first vertex is in the box, in their order
FilteredParcels(north, south, east, west) ==
    LET hit == [i \in 1..Len(MOCK_PARCELS) |->
                   InBox(FirstVertex(MOCK_PARCELS[i])[1], FirstVertex(MOCK_PARCELS[i])[2],
                         north, south, east, west)]
        idx == SelectIdx(hit, 1, Len(MOCK_PARCELS))
    IN  [j \in 1..Len(idx) |-> MOCK_PARCELS[idx[j]]]

\* random.sample(MOCK_PARCELS, min(2, len(MOCK_PARCELS))): any two different
\* parcels, in any order
RandomSamples ==
    {<<MOCK_PARCELS[pick[1]], MOCK_PARCELS[pick[2]]>> :
        pick \in {p \in (1..Len(MOCK_PARCELS)) \X (1..Len(MOCK_PARCELS)) : p[1] # p[2]}}

\* lines 61-87: the responses the handler can give to a query
Responses(args) ==
    IF BadRequest(args) THEN {[status |-> 400, features |-> <<>>]}
    ELSE LET filtered == FilteredParcels(ArgValue(args.north, DefaultNorth),
                                         ArgValue(args.south, DefaultSouth),
                                         ArgValue(args.east, DefaultEast),
                                         ArgValue(args.west, DefaultWest))
         IN  IF filtered = <<>>
             THEN {[status |-> 200, features |-> sample] : sample \in RandomSamples}
             ELSE {[status |-> 200, features |-> filtered]}

InitBbox ==
    /\ pc = "load"
    /\ datasets = [name \in Range(LoadOrder) |-> NoFrame]
    /\ parcels = NoFrame
    /\ land_use = NoFrame
    /\ zoning = NoFrame
    /\ merged = NoFrame
    /\ final = NoFrame
    /\ final_dataset = NoFrame
    /\ outfile = PrevOutput
    /\ log = <<>>
    /\ bbox = NoQuery

\* A client sends GET /bbox with its query string.
SendBboxQuery ==
    /\ bbox.phase = "idle"
    /\ \E north \in LatArgs, south \in LatArgs, east \in LonArgs, west \in LonArgs :
          bbox' = [phase |-> "asked",
                   args |-> [north |-> north, south |-> south, east |-> east, west |-> west],
                   replies |-> <<>>]
    /\ UNCHANGED <<pc, datasets, parcels, land_use, zoning, merged, final,
                   final_dataset, outfile, log>>

\* The handler answers the query (the first time, or as the client repeats it).
get_parcels_by_bbox ==
    /\ bbox.phase = "asked"
    /\ Len(bbox.replies) < MaxCalls
    /\ \E response \in Responses(bbox.args) :
          bbox' = [bbox EXCEPT !.replies = Append(@, response)]
    /\ UNCHANGED <<pc, datasets, parcels, land_use, zoning, merged, final,
                   final_dataset, outfile, log>>

NextBbox ==
    \/ SendBboxQuery
    \/ get_parcels_by_bbox

SpecBbox == InitBbox /\ [][NextBbox]_vars

(***************************************************************************)
(* Properties of the /bbox endpoint (checked under SpecBbox).              *)
(***************************************************************************)
\* The bounds of the current query, each parameter left out standing for its
\* default.
North == IF bbox.args.north = Absent THEN 378000 ELSE bbox.args.north.v
South == IF bbox.args.south = Absent THEN 377000 ELSE bbox.args.south.v
East == IF bbox.args.east = Absent THEN -1224000 ELSE bbox.args.east.v
West == IF bbox.args.west = Absent THEN -1225000 ELSE bbox.args.west.v

\* The query has numbers (or nothing) for all four bounds.
NumericQuery ==
    /\ bbox.phase = "asked"
    /\ \A name \in {"north", "south", "east", "west"} : bbox.args[name] # Malformed

\* The first vertex (lon, lat) of the mock parcel named id.
VertexOf(id) ==
    CASE id = "SF001" -> <<-1224194, 377749>>
      [] id = "SF002" -> <<-1224204, 377759>>
      [] id = "SF003" -> <<-1224214, 377769>>

\* The mock parcels whose first vertex is within the bounds of the query.
Inside ==
    {id \in {"SF001", "SF002", "SF003"} :
        /\ West <= VertexOf(id)[1] /\ VertexOf(id)[1] <= East
        /\ South <= VertexOf(id)[2] /\ VertexOf(id)[2] <= North}

\* The identifiers of the features of a response.
Returned(response) ==
    {response.features[i].parcel_id : i \in 1..Len(response.features)}

\* The response holds exactly the parcels within the bounds, each once.
ExactlyInside(response) ==
    /\ response.status = 200
    /\ Returned(response) = Inside
    /\ Len(response.features) = Cardinality(Inside)

IsReprojection(i) == StartsWith(log[i], "to_crs:")

\* Entry i of the log reports the resolution of a column or the derivation of
\* the area.
IsResolution(i) ==
    \/ StartsWith(log[i], "renamed:")
    \/ StartsWith(log[i], "area:")
    \/ StartsWith(log[i], "land_use:")
    \/ StartsWith(log[i], "zoning:")

\* The sources whose fetch has completed when the step of entry i begins: those
\* reported loaded before it, and the one a reprojection entry is about (a
\* collection is reprojected after its own download and decoding).
FetchedBefore(i) ==
    {name \in {"parcels", "zoning", "land_use"} :
        \/ \E j \in 1..(i - 1) : log[j] = "loaded:" \o name
        \/ log[i] = "to_crs:" \o name}

====
